---- MODULE Spec2Model ----
(***************************************************************************)
(* Model of visualise.py: the KMonad configuration parser (comment         *)
(* stripping, balanced-expression scanning, block extraction, top-level    *)
(* form splitting) and the key-to-layer alignment drawn by                 *)
(* generate_single_grid_image.                                             *)
(*                                                                         *)
(* Text is a sequence of lexical symbols.  A symbol is "(", ")", a         *)
(* whitespace character (" " or "\n"), a comment character ("#", "|",      *)
(* ";") or a word of characters the parser never inspects ("defsrc",       *)
(* "XX", "a", ...).  Offsets are 0-based as in the Python source and count *)
(* symbols.                                                                *)
(***************************************************************************)
EXTENDS Integers, Sequences, FiniteSets, TLC

VARIABLES
    pc,             \* which call is in progress
    body, i, forms, \* split_top_level_forms: argument, cursor, accumulator
    scan,           \* result of a direct find_top_level_expression call
    content,        \* the comment-stripped document being parsed
    block_type, idx, results, spans,
                    \* extract_defblocks: argument, cursor, accumulator, and the
                    \* [found, next_idx) offsets of each appended block
    file_text,      \* the .kbd file on disk
    defsrc_list, layer_dict,
                    \* what parse_kmonad_config returned last
    expr_map,       \* the label map loaded by main
    cells,          \* what generate_single_grid_image drew, per physical key
    printed         \* the long labels it printed

scanVars == <<body, i, forms, scan>>
extVars  == <<content, block_type, idx, results, spans>>
pipeVars == <<file_text, defsrc_list, layer_dict, expr_map, cells, printed>>
vars     == <<pc, scanVars, extVars, pipeVars>>

-----------------------------------------------------------------------------
(* Bounds *)

MaxBody == 6
MaxPieces == 5
MaxForms == 2
MaxText == 5
MaxBlocks == 2

-----------------------------------------------------------------------------
(* Python string primitives on symbol sequences *)

\* s[k] with a 0-based index
At(s, k) == s[k + 1]

\* s[a:b]
Slice(s, a, b) == SubSeq(s, a + 1, b)

\* str.isspace for one symbol
IsSpace(c) == c \in {" ", "\n"}

RECURSIVE LStrip(_)
LStrip(s) == IF s # <<>> /\ IsSpace(Head(s)) THEN LStrip(Tail(s)) ELSE s

RECURSIVE RStrip(_)
RStrip(s) ==
    IF s # <<>> /\ IsSpace(s[Len(s)]) THEN RStrip(SubSeq(s, 1, Len(s) - 1)) ELSE s

\* str.strip()
Strip(s) == RStrip(LStrip(s))

\* the offset of the first whitespace symbol at or after k, or len(s)
RECURSIVE TokenEnd(_, _)
TokenEnd(s, k) ==
    IF k < Len(s) /\ ~IsSpace(At(s, k)) THEN TokenEnd(s, k + 1) ELSE k

\* the offset of the first non-whitespace symbol at or after k, or len(s)
RECURSIVE SkipSpace(_, _)
SkipSpace(s, k) ==
    IF k < Len(s) /\ IsSpace(At(s, k)) THEN SkipSpace(s, k + 1) ELSE k

\* s.split(None, 1): the first word, and the rest once the whitespace run
\* after it is dropped (trailing whitespace of the rest is kept)
SplitFirst(s) ==
    LET a == SkipSpace(s, 0)
        b == TokenEnd(s, a)
        c == SkipSpace(s, b)
    IN  IF a >= Len(s) THEN <<>>
        ELSE IF c >= Len(s) THEN <<Slice(s, a, b)>>
        ELSE <<Slice(s, a, b), Slice(s, c, Len(s))>>

\* the Python string a symbol sequence spells
RECURSIVE Join(_)
Join(s) == IF s = <<>> THEN "" ELSE Head(s) \o Join(Tail(s))

\* the symbols of s that are not whitespace, in order
NonSpace(s) == SelectSeq(s, LAMBDA c : ~IsSpace(c))

RECURSIVE Flatten(_)
Flatten(ss) == IF ss = <<>> THEN <<>> ELSE Head(ss) \o Flatten(Tail(ss))

\* all texts over an alphabet, up to a length
Texts(alphabet, n) == UNION {[1..k -> alphabet] : k \in 0..n}

-----------------------------------------------------------------------------
(* find_top_level_expression *)

\* the while loop, with the stack of "(" kept as its depth
RECURSIVE ScanLoop(_, _, _, _)
ScanLoop(text, start_index, k, depth) ==
    IF k >= Len(text)
    THEN IF depth > 0
         THEN [status |-> "unmatched_open", at |-> start_index,
               expr |-> <<>>, next |-> k]
         ELSE [status |-> "none", at |-> start_index,
               expr |-> <<>>, next |-> Len(text)]
    ELSE IF At(text, k) = "("
    THEN ScanLoop(text, start_index, k + 1, depth + 1)
    ELSE IF At(text, k) = ")"
    THEN IF depth = 0
         THEN [status |-> "unmatched_close", at |-> k,
               expr |-> <<>>, next |-> k]
         ELSE IF depth = 1
         THEN [status |-> "ok", at |-> start_index,
               expr |-> Slice(text, start_index, k + 1), next |-> k + 1]
         ELSE ScanLoop(text, start_index, k + 1, depth - 1)
    ELSE ScanLoop(text, start_index, k + 1, depth)

\* a scanner that returns at the first ")" whatever the depth
RECURSIVE ScanLoopShallow(_, _, _)
ScanLoopShallow(text, start_index, k) ==
    IF k >= Len(text)
    THEN [status |-> "unmatched_open", at |-> start_index,
          expr |-> <<>>, next |-> k]
    ELSE IF At(text, k) = ")"
    THEN [status |-> "ok", at |-> start_index,
          expr |-> Slice(text, start_index, k + 1), next |-> k + 1]
    ELSE ScanLoopShallow(text, start_index, k + 1)

find_top_level_expression_shallow(text, start_index) ==
    ScanLoopShallow(text, start_index, start_index)

find_top_level_expression(text, start_index) ==
    ScanLoop(text, start_index, start_index, 0)

Raised(r) == r.status \in {"unmatched_open", "unmatched_close"}

find_top_level_expression_in_body(text, start_index) ==
    find_top_level_expression(text, start_index)

-----------------------------------------------------------------------------
(* split_top_level_forms *)

\* a splitter that drops the text after an unmatched "("
SplitIterDropRest(text, k, acc) ==
    LET j == SkipSpace(text, k)
    IN  IF k >= Len(text) \/ j >= Len(text)
        THEN [i |-> j, forms |-> acc, done |-> TRUE]
        ELSE IF At(text, j) = "("
        THEN LET r == find_top_level_expression_in_body(text, j)
             IN  IF Raised(r)
                 THEN [i |-> j, forms |-> acc, done |-> TRUE]
                 ELSE [i |-> r.next, forms |-> Append(acc, r.expr),
                       done |-> FALSE]
        ELSE LET e == TokenEnd(text, j)
             IN  [i |-> e, forms |-> Append(acc, Slice(text, j, e)),
                  done |-> FALSE]

\* one pass of the outer while loop, from cursor k with the forms acc;
\* done is set when the loop is left
SplitIter(text, k, acc) ==
    LET j == SkipSpace(text, k)
    IN  IF k >= Len(text) \/ j >= Len(text)
        THEN [i |-> j, forms |-> acc, done |-> TRUE]
        ELSE IF At(text, j) = "("
        THEN LET r == find_top_level_expression_in_body(text, j)
             IN  IF Raised(r)
                 THEN [i |-> j,
                       forms |-> Append(acc, Strip(Slice(text, j, Len(text)))),
                       done |-> TRUE]
                 ELSE [i |-> r.next, forms |-> Append(acc, r.expr),
                       done |-> FALSE]
        ELSE LET e == TokenEnd(text, j)
             IN  [i |-> e, forms |-> Append(acc, Slice(text, j, e)),
                  done |-> FALSE]

RECURSIVE SplitLoop(_, _, _)
SplitLoop(text, k, acc) ==
    LET st == SplitIter(text, k, acc)
    IN  IF st.done THEN st.forms ELSE SplitLoop(text, st.i, st.forms)

split_top_level_forms(text) == SplitLoop(text, 0, <<>>)

-----------------------------------------------------------------------------
(* extract_defblocks *)

\* results holds (None, body) for defsrc: the name of such an entry
NoneName == "<None>"

\* whether the word w starts with the keyword kw (no word of the vocabulary
\* is a keyword followed by more characters: those are two symbols)
StartsWith(w, kw) == w = kw

\* content.find("(" + block_type, from): the least offset at or after from
\* where "(" is followed by the keyword, or -1
RECURSIVE Find(_, _, _)
Find(text, kw, from) ==
    IF from + 1 >= Len(text) THEN -1
    ELSE IF At(text, from) = "(" /\ StartsWith(At(text, from + 1), kw) THEN from
    ELSE Find(text, kw, from + 1)

\* the header and body of a scanned block: what is appended to results, if
\* anything
BlockEntry(expr_string, kw) ==
    LET stripped  == Strip(expr_string)
        inner     == Strip(Slice(stripped, 1, Len(stripped) - 1))
        parts     == SplitFirst(inner)
    IN  IF Len(parts) < 2 THEN <<>>
        ELSE LET block_keyword == Join(parts[1])
                 remainder     == Strip(parts[2])
             IN  IF block_keyword = "defsrc" /\ kw = "defsrc"
                 THEN <<[name |-> NoneName, body |-> remainder]>>
                 ELSE IF block_keyword = "deflayer" /\ kw = "deflayer"
                 THEN LET remainder_parts == SplitFirst(remainder)
                      IN  IF remainder_parts = <<>> THEN <<>>
                          ELSE <<[name |-> Join(remainder_parts[1]),
                                  body |-> IF Len(remainder_parts) > 1
                                           THEN remainder_parts[2]
                                           ELSE <<>>]>>
                 ELSE <<>>

\* an extractor that gives up at the first block the scanner rejects
ExtractIterAbort(text, kw, from, acc, seen) ==
    LET found == Find(text, kw, from)
        r     == find_top_level_expression(text, found)
    IN  IF found = -1 \/ Raised(r)
        THEN [idx |-> from, results |-> acc, spans |-> seen, done |-> TRUE]
        ELSE LET entry == BlockEntry(r.expr, kw)
             IN  [idx |-> r.next, results |-> acc \o entry,
                  spans |-> Append(seen, [start |-> found, end |-> r.next,
                                          kept |-> entry # <<>>]),
                  done |-> FALSE]

\* an extractor that moves one past the "(" it found after a good scan too
ExtractIterRevisit(text, kw, from, acc, seen) ==
    LET found == Find(text, kw, from)
    IN  IF found = -1
        THEN [idx |-> from, results |-> acc, spans |-> seen, done |-> TRUE]
        ELSE LET r == find_top_level_expression(text, found)
             IN  IF Raised(r)
                 THEN [idx |-> found + 1, results |-> acc, spans |-> seen,
                       done |-> FALSE]
                 ELSE LET entry == BlockEntry(r.expr, kw)
                      IN  [idx |-> found + 1, results |-> acc \o entry,
                           spans |-> Append(seen,
                               [start |-> found, end |-> r.next,
                                kept |-> entry # <<>>]),
                           done |-> FALSE]

\* one pass of the while True loop, from cursor from with the results acc.
\* seen records the [found, next_idx) of every scan that succeeded, and
\* whether its block was appended; done is set at the break
ExtractIter(text, kw, from, acc, seen) ==
    LET found == Find(text, kw, from)
    IN  IF found = -1
        THEN [idx |-> from, results |-> acc, spans |-> seen, done |-> TRUE]
        ELSE LET r == find_top_level_expression(text, found)
             IN  IF Raised(r)
                 THEN [idx |-> found + 1, results |-> acc, spans |-> seen,
                       done |-> FALSE]
                 ELSE LET entry == BlockEntry(r.expr, kw)
                      IN  [idx |-> r.next, results |-> acc \o entry,
                           spans |-> Append(seen,
                               [start |-> found, end |-> r.next,
                                kept |-> entry # <<>>]),
                           done |-> FALSE]

RECURSIVE ExtractLoop(_, _, _, _, _)
ExtractLoop(text, kw, from, acc, seen) ==
    LET st == ExtractIter(text, kw, from, acc, seen)
    IN  IF st.done THEN st.results
        ELSE ExtractLoop(text, kw, st.idx, st.results, st.spans)

extract_defblocks(text, kw) == ExtractLoop(text, kw, 0, <<>>, <<>>)

-----------------------------------------------------------------------------
(* parse_kmonad_config *)

\* the offset of the first "|#" at or after from, or -1
RECURSIVE FindBlockEnd(_, _)
FindBlockEnd(text, from) ==
    IF from + 1 >= Len(text) THEN -1
    ELSE IF At(text, from) = "|" /\ At(text, from + 1) = "#" THEN from
    ELSE FindBlockEnd(text, from + 1)

\* a block pass that takes an unterminated "#|" to run to the end of the text
RECURSIVE RemoveBlockCommentsToEnd(_, _)
RemoveBlockCommentsToEnd(text, p) ==
    IF p >= Len(text) THEN <<>>
    ELSE IF p + 1 < Len(text) /\ At(text, p) = "#" /\ At(text, p + 1) = "|"
    THEN IF FindBlockEnd(text, p + 2) = -1 THEN <<>>
         ELSE RemoveBlockCommentsToEnd(text, FindBlockEnd(text, p + 2) + 2)
    ELSE <<At(text, p)>> \o RemoveBlockCommentsToEnd(text, p + 1)

\* re.sub(r"#\|.*?\|#", "", text, flags=re.DOTALL) from offset p: each
\* leftmost "#|" that some later "|#" closes is removed through the nearest
\* such "|#"; everything else is kept
RECURSIVE RemoveBlockComments(_, _)
RemoveBlockComments(text, p) ==
    IF p >= Len(text) THEN <<>>
    ELSE IF /\ p + 1 < Len(text) /\ At(text, p) = "#" /\ At(text, p + 1) = "|"
            /\ FindBlockEnd(text, p + 2) # -1
    THEN RemoveBlockComments(text, FindBlockEnd(text, p + 2) + 2)
    ELSE <<At(text, p)>> \o RemoveBlockComments(text, p + 1)

\* the offset of the first "\n" at or after from, or len(text)
RECURSIVE LineEnd(_, _)
LineEnd(text, from) ==
    IF from < Len(text) /\ At(text, from) # "\n" THEN LineEnd(text, from + 1)
    ELSE from

\* re.sub(r";;.*?$", "", text, flags=re.MULTILINE) from offset p: each ";;"
\* is removed up to, not including, the end of its line
RECURSIVE RemoveLineComments(_, _)
RemoveLineComments(text, p) ==
    IF p >= Len(text) THEN <<>>
    ELSE IF p + 1 < Len(text) /\ At(text, p) = ";" /\ At(text, p + 1) = ";"
    THEN RemoveLineComments(text, LineEnd(text, p + 2))
    ELSE <<At(text, p)>> \o RemoveLineComments(text, p + 1)

\* the two re.sub calls, block comments first
StripComments(text) == RemoveLineComments(RemoveBlockComments(text, 0), 0)

\* defsrc_list: the forms of the first defsrc block, or []
DefsrcList(text) ==
    LET defsrc_blocks == extract_defblocks(text, "defsrc")
    IN  IF defsrc_blocks # <<>>
        THEN split_top_level_forms(defsrc_blocks[1].body)
        ELSE <<>>

\* a layer table that starts from the table of the parse before
StaleLayerDict == layer_dict

\* layer_dict = {}
EmptyLayerDict == <<>>

\* the for loop over deflayer_blocks: layer_dict[layer_name] = forms
RECURSIVE LayerDictLoop(_, _)
LayerDictLoop(blocks, acc) ==
    IF blocks = <<>> THEN acc
    ELSE LayerDictLoop(Tail(blocks),
            (Head(blocks).name :> split_top_level_forms(Head(blocks).body)) @@ acc)

LayerDict(text) ==
    LayerDictLoop(extract_defblocks(text, "deflayer"), EmptyLayerDict)

-----------------------------------------------------------------------------
(* generate_single_grid_image *)

PHYSICAL_KEY_MAP ==
    ("esc" :> <<0, 0>>) @@ ("1" :> <<1, 0>>) @@ ("2" :> <<2, 0>>) @@
    ("3" :> <<3, 0>>) @@ ("4" :> <<4, 0>>) @@ ("5" :> <<5, 0>>) @@
    ("6" :> <<6, 0>>) @@ ("7" :> <<7, 0>>) @@ ("8" :> <<8, 0>>) @@
    ("9" :> <<9, 0>>) @@ ("0" :> <<10, 0>>) @@ ("-" :> <<11, 0>>) @@
    ("=" :> <<12, 0>>) @@ ("bspc" :> <<13, 0>>) @@
    ("tab" :> <<0, 1>>) @@ ("q" :> <<1, 1>>) @@ ("w" :> <<2, 1>>) @@
    ("e" :> <<3, 1>>) @@ ("r" :> <<4, 1>>) @@ ("t" :> <<5, 1>>) @@
    ("y" :> <<6, 1>>) @@ ("u" :> <<7, 1>>) @@ ("i" :> <<8, 1>>) @@
    ("o" :> <<9, 1>>) @@ ("p" :> <<10, 1>>) @@ ("[" :> <<11, 1>>) @@
    ("]" :> <<12, 1>>) @@ ("\\" :> <<13, 1>>) @@
    ("caps" :> <<0, 2>>) @@ ("a" :> <<1, 2>>) @@ ("s" :> <<2, 2>>) @@
    ("d" :> <<3, 2>>) @@ ("f" :> <<4, 2>>) @@ ("g" :> <<5, 2>>) @@
    ("h" :> <<6, 2>>) @@ ("j" :> <<7, 2>>) @@ ("k" :> <<8, 2>>) @@
    ("l" :> <<9, 2>>) @@ (";" :> <<10, 2>>) @@ ("'" :> <<11, 2>>) @@
    ("ret" :> <<12, 2>>) @@
    ("lsft" :> <<0, 3>>) @@ ("z" :> <<1, 3>>) @@ ("x" :> <<2, 3>>) @@
    ("c" :> <<3, 3>>) @@ ("v" :> <<4, 3>>) @@ ("b" :> <<5, 3>>) @@
    ("n" :> <<6, 3>>) @@ ("m" :> <<7, 3>>) @@ ("," :> <<8, 3>>) @@
    ("." :> <<9, 3>>) @@ ("/" :> <<10, 3>>) @@ ("rsft" :> <<11, 3>>) @@
    ("lctl" :> <<0, 4>>) @@ ("lmet" :> <<1, 4>>) @@ ("lalt" :> <<2, 4>>) @@
    ("spc" :> <<3, 4>>) @@ ("ralt" :> <<4, 4>>) @@ ("rmet" :> <<5, 4>>) @@
    ("cmp" :> <<6, 4>>) @@ ("rctl" :> <<7, 4>>)

\* the strings of the model that can name a layer, in Python's string order
WordOrder == <<"1", "2", "XX", "a", "base", "nav", "s">>

\* sorted(names)
Sorted(names) == SelectSeq(WordOrder, LAMBDA w : w \in names)

\* an index that keeps the first position of a repeated key
RECURSIVE IndexLoopFirst(_, _, _)
IndexLoopFirst(list, k, acc) ==
    IF k >= Len(list) THEN acc
    ELSE IndexLoopFirst(list, k + 1,
            IF Join(At(list, k)) \in DOMAIN PHYSICAL_KEY_MAP
            THEN acc @@ (Join(At(list, k)) :> k)
            ELSE acc)

\* the enumerate loop: defsrc_index_for_key[keyname] = i for the forms that
\* name a physical key
RECURSIVE IndexLoop(_, _, _)
IndexLoop(list, k, acc) ==
    IF k >= Len(list) THEN acc
    ELSE IndexLoop(list, k + 1,
            IF Join(At(list, k)) \in DOMAIN PHYSICAL_KEY_MAP
            THEN (Join(At(list, k)) :> k) @@ acc
            ELSE acc)

DefsrcIndexForKeyFirst(list) == IndexLoopFirst(list, 0, <<>>)

DefsrcIndexForKey(list) == IndexLoop(list, 0, <<>>)

\* the text shown when a layer has no form at an index
NotApplicable == <<"(", "N/A", ")">>

\* an alignment that reads past the end of a short layer as if it wrapped
AssignedWrapping(layer_keys, k) ==
    IF k < Len(layer_keys) THEN At(layer_keys, k)
    ELSE IF layer_keys # <<>> THEN At(layer_keys, k % Len(layer_keys))
    ELSE NotApplicable

\* an alignment that is off by one
AssignedShifted(layer_keys, k) ==
    IF k + 1 < Len(layer_keys) THEN At(layer_keys, k + 1) ELSE NotApplicable

\* assigned: the layer's form at the key's index, or "(N/A)"
Assigned(layer_keys, k) ==
    IF k < Len(layer_keys) THEN At(layer_keys, k) ELSE NotApplicable

\* get_short_label: the label the map gives the stripped text, or that text
get_short_label(original, mapping) ==
    LET stripped == Join(Strip(original))
    IN  IF stripped \in DOMAIN mapping THEN mapping[stripped] ELSE stripped

\* the label drawn for an assignment: "XX" is blanked before and after the
\* label map is applied
ShortAssigned(assigned, mapping) ==
    LET blanked == IF Join(assigned) = "XX" THEN <<>> ELSE assigned
        short   == get_short_label(blanked, mapping)
    IN  IF short = "XX" THEN "" ELSE short

\* what is drawn in the rectangle of one physical key: its index in defsrc
\* and one line per layer, in sorted layer order
Cell(keyname, index_for_key, layers, mapping) ==
    IF keyname \notin DOMAIN index_for_key
    THEN [declared |-> FALSE, index |-> -1, lines |-> <<>>]
    ELSE LET k           == index_for_key[keyname]
             layer_names == Sorted(DOMAIN layers)
         IN  [declared |-> TRUE,
              index    |-> k,
              lines    |-> [n \in 1..Len(layer_names) |->
                  LET assigned == Assigned(layers[layer_names[n]], k)
                  IN  [layer    |-> layer_names[n],
                       assigned |-> assigned,
                       label    |-> ShortAssigned(assigned, mapping)]]]

Cells(list, layers, mapping) ==
    LET index_for_key == DefsrcIndexForKey(list)
    IN  [keyname \in DOMAIN PHYSICAL_KEY_MAP |->
            Cell(keyname, index_for_key, layers, mapping)]

\* the labels of more than 10 characters, which are printed
LongLabels(drawn) ==
    {l \in UNION {{drawn[k].lines[n].label : n \in 1..Len(drawn[k].lines)} :
                    k \in DOMAIN drawn} : Len(l) > 10}

-----------------------------------------------------------------------------
(* Defaults of the variables a specification does not use *)

NoScan == [status |-> "none", at |-> 0, expr |-> <<>>, next |-> 0]

ScanIdle == body = <<>> /\ i = 0 /\ forms = <<>> /\ scan = NoScan

ExtIdle ==
    /\ content = <<>> /\ block_type = "defsrc" /\ idx = 0
    /\ results = <<>> /\ spans = <<>>

PipeIdle ==
    /\ file_text = <<>> /\ defsrc_list = <<>> /\ layer_dict = <<>>
    /\ expr_map = <<>> /\ cells = <<>> /\ printed = {}

-----------------------------------------------------------------------------
(* The scanner and the splitter, run on every short body *)

BodyAlphabet == {"(", ")", " ", "a"}

InitScan ==
    /\ pc = "idle"
    /\ body \in Texts(BodyAlphabet, MaxBody)
    /\ i = 0 /\ forms = <<>> /\ scan = NoScan
    /\ ExtIdle /\ PipeIdle

\* the offset of the first "(" of s, or len(s)
RECURSIVE FirstOpen(_, _)
FirstOpen(s, k) ==
    IF k < Len(s) /\ At(s, k) # "(" THEN FirstOpen(s, k + 1) ELSE k

\* a caller runs the scanner from the first "(" of the text
ScanCall ==
    /\ pc = "idle"
    /\ FirstOpen(body, 0) < Len(body)
    /\ scan' = find_top_level_expression(body, FirstOpen(body, 0))
    /\ pc' = "scanned"
    /\ UNCHANGED <<body, i, forms, extVars, pipeVars>>

\* split_top_level_forms is entered: forms = [], i = 0
SplitCall ==
    /\ pc = "idle"
    /\ i' = 0 /\ forms' = <<>>
    /\ pc' = "split"
    /\ UNCHANGED <<body, scan, extVars, pipeVars>>

\* one pass of its while loop
SplitStep ==
    /\ pc = "split"
    /\ LET st == SplitIter(body, i, forms)
       IN  /\ i' = st.i
           /\ forms' = st.forms
           /\ pc' = IF st.done THEN "returned" ELSE "split"
    /\ UNCHANGED <<body, scan, extVars, pipeVars>>

NextScan == ScanCall \/ SplitCall \/ SplitStep

SpecScan == InitScan /\ [][NextScan]_vars

-----------------------------------------------------------------------------
(* The block extractor, run on every short document that opens a block *)

\* what opens a block
BlockOpeners == { <<"(", "defsrc", " ">>, <<"(", "deflayer", " ">> }

\* what a document is built from
ExtPieces == BlockOpeners \cup { <<"a">>, <<")">>, <<" ">> }

Documents(pieces, n) ==
    {Flatten(ps) : ps \in UNION {[1..k -> pieces] : k \in 0..n}}

InitExtract ==
    /\ pc = "idle"
    /\ content \in {h \o d : h \in BlockOpeners, d \in Documents(ExtPieces, MaxPieces)}
    /\ block_type \in {"defsrc", "deflayer"}
    /\ idx = 0 /\ results = <<>> /\ spans = <<>>
    /\ ScanIdle /\ PipeIdle

\* extract_defblocks is entered: results = [], idx = 0
ExtractCall ==
    /\ pc = "idle"
    /\ idx' = 0 /\ results' = <<>> /\ spans' = <<>>
    /\ pc' = "extract"
    /\ UNCHANGED <<content, block_type, scanVars, pipeVars>>

\* one pass of its while loop
ExtractStep ==
    /\ pc = "extract"
    /\ LET st == ExtractIter(content, block_type, idx, results, spans)
       IN  /\ idx' = st.idx
           /\ results' = st.results
           /\ spans' = st.spans
           /\ pc' = IF st.done THEN "extracted" ELSE "extract"
    /\ UNCHANGED <<content, block_type, scanVars, pipeVars>>

NextExtract == ExtractCall \/ ExtractStep

SpecExtract == InitExtract /\ [][NextExtract]_vars

-----------------------------------------------------------------------------
(* The image generator, run on every small parse result and label map *)

\* lists of at most n of the given forms
Lists(fs, n) == UNION {[1..k -> fs] : k \in 0..n}

\* defsrc forms: two physical keys and a name that is no physical key
SrcForms == { <<"a">>, <<"s">>, <<"fn">> }

\* layer forms: the transparent placeholder, a plain form, a key name
LayerForms == { <<"XX">>, <<"1">>, <<"a">> }

\* a second layer, when there is one
NavLayers == { <<>>, << <<"XX">> >> }

LayerDicts ==
    {("base" :> f) : f \in Lists(LayerForms, MaxForms)}
        \cup {("base" :> f) @@ ("nav" :> g) :
                f \in Lists(LayerForms, MaxForms), g \in NavLayers}

\* label maps: the empty map, and every map of one of these keys to one of
\* these labels (a label is looked up once, so entries do not interact)
MapKeys == {"", "XX", "1", "(N/A)"}
MapLabels == {"XX", "layer-switch"}
ExprMaps == {<<>>} \cup {(k :> l) : k \in MapKeys, l \in MapLabels}

InitAlign ==
    /\ pc = "idle"
    /\ defsrc_list \in Lists(SrcForms, MaxForms)
    /\ layer_dict \in LayerDicts
    /\ expr_map \in ExprMaps
    /\ file_text = <<>> /\ cells = <<>> /\ printed = {}
    /\ ScanIdle /\ ExtIdle

\* generate_single_grid_image(defsrc_list, layer_dict, expr_map)
GenerateImage ==
    /\ pc = "idle"
    /\ cells' = Cells(defsrc_list, layer_dict, expr_map)
    /\ printed' = LongLabels(cells')
    /\ pc' = "drawn"
    /\ UNCHANGED <<file_text, defsrc_list, layer_dict, expr_map, scanVars, extVars>>

NextAlign == GenerateImage

SpecAlign == InitAlign /\ [][NextAlign]_vars

-----------------------------------------------------------------------------
(* main and the change handler *)

\* the path main was given, and the paths change events can carry
KbdPath == "config.kbd"
EventPaths == {"config.kbd", "notes.txt"}

\* parse_kmonad_config(kbd_path) followed by generate_single_grid_image: what
\* main does once and on_modified does on every change of the file
ParseAndDraw ==
    /\ content' = StripComments(file_text)
    /\ defsrc_list' = DefsrcList(content')
    /\ layer_dict' = LayerDict(content')
    /\ cells' = Cells(defsrc_list', layer_dict', expr_map)
    /\ printed' = LongLabels(cells')

\* main: the initial parse and image, then the observer is started
Main ==
    /\ pc = "start"
    /\ ParseAndDraw
    /\ pc' = "watching"
    /\ UNCHANGED <<file_text, expr_map, block_type, idx, results, spans, scanVars>>

\* the user saves the file with new text
EditFile(text) ==
    /\ pc = "watching"
    /\ file_text' = text
    /\ UNCHANGED <<pc, defsrc_list, layer_dict, expr_map, cells, printed,
                   scanVars, extVars>>

\* ConfigChangeHandler.on_modified(event)
OnModified(is_directory, src_path) ==
    /\ pc = "watching"
    /\ IF is_directory \/ src_path # KbdPath
       THEN UNCHANGED <<content, defsrc_list, layer_dict, cells, printed>>
       ELSE ParseAndDraw
    /\ UNCHANGED <<pc, file_text, expr_map, block_type, idx, results, spans, scanVars>>

WatchIdle ==
    /\ content = <<>> /\ defsrc_list = <<>> /\ layer_dict = <<>>
    /\ expr_map = <<>> /\ cells = <<>> /\ printed = {}
    /\ block_type = "defsrc" /\ idx = 0 /\ results = <<>> /\ spans = <<>>
    /\ ScanIdle

(* The comment stripper, run by main on every short text *)

CommentAlphabet == {"#", "|", ";", "\n", "a"}

InitStrip ==
    /\ pc = "start"
    /\ file_text \in Texts(CommentAlphabet, MaxText)
    /\ WatchIdle

NextStrip == Main

SpecStrip == InitStrip /\ [][NextStrip]_vars

(* The watcher, with the file rewritten between changes *)

\* the blocks a watched file is made of
WatchBlocks ==
    { <<"(", "defsrc", " ", "a", " ", "s", ")", "\n",
        "(", "deflayer", " ", "base", " ", "1", ")">>,
      <<"(", "deflayer", " ", "base", "\n", "XX", " ", "a", ")", "\n">>,
      <<"(", "deflayer", " ", "nav", " ", "(", "a", " ", "1", ")", ")">>,
      <<"(", "deflayer", " ", "base", " ", "a">> }

WatchDocs == Documents(WatchBlocks, MaxBlocks)

InitWatch ==
    /\ pc = "start"
    /\ file_text \in WatchDocs
    /\ WatchIdle

NextWatch ==
    \/ Main
    \/ \E text \in WatchDocs : EditFile(text)
    \/ \E is_directory \in BOOLEAN : \E src_path \in EventPaths :
          OnModified(is_directory, src_path)

SpecWatch == InitWatch /\ [][NextWatch]_vars

-----------------------------------------------------------------------------
(* Parenthesis structure, stated without the scanner *)

\* opens minus closes among the first k symbols of s
Depth(s, k) ==
    Cardinality({n \in 1..k : s[n] = "("}) - Cardinality({n \in 1..k : s[n] = ")"})

\* every ")" closes an earlier "(" and every "(" is closed
Balanced(s) ==
    /\ Depth(s, Len(s)) = 0
    /\ \A k \in 0..Len(s) : Depth(s, k) >= 0

\* the offset of the ")" that closes the "(" at offset p
MatchingClose(s, p) ==
    CHOOSE k \in p + 1..Len(s) - 1 :
        /\ Depth(s, k + 1) = Depth(s, p)
        /\ \A n \in p + 1..k : Depth(s, n) > Depth(s, p)

\* the "(" at offset p is never closed
UnmatchedOpenAt(s, p) ==
    /\ p < Len(s)
    /\ At(s, p) = "("
    /\ \A k \in p + 1..Len(s) : Depth(s, k) > Depth(s, p)

-----------------------------------------------------------------------------
(* Claims about the scanner and the splitter *)

\* C4: on a text whose parentheses are balanced, the scanner started at the
\* first "(" returns the substring from that "(" through its matching ")",
\* itself balanced, and the offset just after that ")".
C4_BalancedScan ==
    (pc = "scanned" /\ Balanced(body)) =>
        LET p == FirstOpen(body, 0)
            m == MatchingClose(body, p)
        IN  /\ scan.status = "ok"
            /\ scan.expr = Slice(body, p, m + 1)
            /\ Head(scan.expr) = "("
            /\ Balanced(scan.expr)
            /\ scan.next = m + 1

\* a balanced text with leading text, a nested group and text after it
C4_Witness ==
    /\ pc = "scanned"
    /\ Balanced(body)
    /\ FirstOpen(body, 0) > 0
    /\ scan.next < Len(body)
    /\ \E k \in 0..Len(scan.expr) : Depth(scan.expr, k) = 2

\* the forms of a finished split are non-empty and hold the body's
\* non-whitespace symbols in order
C6_AllTextAccounted ==
    pc = "returned" =>
        /\ \A n \in 1..Len(forms) : forms[n] # <<>>
        /\ NonSpace(Flatten(forms)) = NonSpace(body)

\* a pass that meets an unmatched "(" at offset j appends the trimmed
\* remainder body[j:] and leaves the loop
C6_RemainderIsLastForm ==
    (pc = "split" /\ UnmatchedOpenAt(body, SkipSpace(body, i))) =>
        /\ forms' = Append(forms, Strip(Slice(body, SkipSpace(body, i), Len(body))))
        /\ pc' = "returned"

\* a pass that stays in the loop moves the cursor forward, within the body:
\* at most len(body) passes stay in the loop
C6_CursorAdvances ==
    (pc = "split" /\ pc' = "split") => (i < i' /\ i' <= Len(body))

\* C6: split_top_level_forms terminates on every body (each pass leaves the
\* loop or advances the cursor, which stays within the body); every form is non-empty; the forms hold exactly the
\* body's non-whitespace symbols in order; on an unmatched "(" the trimmed
\* remainder is the final form and nothing follows it.
C6_SplitTotal ==
    /\ [](C6_AllTextAccounted)
    /\ [][C6_RemainderIsLastForm]_vars
    /\ [][pc = "returned" => pc' = "returned" /\ forms' = forms]_vars
    /\ [][C6_CursorAdvances]_vars

\* a split that ended on an unmatched "(" whose remainder had to be trimmed
C6_Witness ==
    /\ pc = "returned"
    /\ Len(forms) >= 2
    /\ UnmatchedOpenAt(body, i)
    /\ forms[Len(forms)] # Slice(body, i, Len(body))
    /\ forms[Len(forms)] = Strip(Slice(body, i, Len(body)))

-----------------------------------------------------------------------------
(* Claims about the block extractor *)

\* "(" followed by the keyword of the run, at offset p of the document
Occurrence(p) ==
    /\ p >= 0 /\ p + 1 < Len(content)
    /\ At(content, p) = "("
    /\ At(content, p + 1) = block_type

Occurrences == {p \in 0..Len(content) - 1 : Occurrence(p)}

\* the offset just after the ")" closing the "(" at p
CloseOf(p) == MatchingClose(content, p) + 1

\* a balanced block at p whose keyword stands alone and is followed, after
\* whitespace, by more text
WellFormedBlockAt(p) ==
    /\ Occurrence(p)
    /\ ~UnmatchedOpenAt(content, p)
    /\ IsSpace(At(content, p + 2))
    /\ \E k \in p + 2..CloseOf(p) - 2 : ~IsSpace(At(content, k))

\* p lies inside another balanced block of the keyword
NestedInBlock(p) ==
    \E q \in Occurrences :
        ~UnmatchedOpenAt(content, q) /\ q < p /\ p < CloseOf(q)

Extracted(p) == \E n \in 1..Len(spans) : spans[n].start = p /\ spans[n].kept

\* the offset the pass about to run will find, or -1
NextFound ==
    IF \E p \in Occurrences : p >= idx
    THEN CHOOSE p \in Occurrences : p >= idx /\ \A q \in Occurrences : q >= idx => p <= q
    ELSE -1

\* a pass whose scan fails moves the cursor one past the failed start, keeps
\* the results and stays in the loop
C7_SkipOnePastFailure ==
    (pc = "extract" /\ NextFound # -1 /\ UnmatchedOpenAt(content, NextFound)) =>
        /\ idx' = NextFound + 1
        /\ results' = results
        /\ pc' = "extract"

\* a pass that stays in the loop moves the cursor forward, within the
\* document: at most len(content) passes stay in the loop
C7_CursorAdvances ==
    (pc = "extract" /\ pc' = "extract") => (idx < idx' /\ idx' <= Len(content))

\* C7 as claimed: every well-formed block of the keyword that starts after a
\* failed start is extracted.
C7_Original ==
    pc = "extracted" =>
        \A f \in Occurrences : \A p \in Occurrences :
            (UnmatchedOpenAt(content, f) /\ f < p /\ WellFormedBlockAt(p))
                => Extracted(p)

\* every well-formed block after a failed start that is not nested in another
\* balanced block of the keyword is extracted
C7_LaterBlocksKept ==
    pc = "extracted" =>
        \A f \in Occurrences : \A p \in Occurrences :
            (UnmatchedOpenAt(content, f) /\ f < p /\ WellFormedBlockAt(p)
                /\ ~NestedInBlock(p))
                => Extracted(p)

\* C7 (amended): after a scanner failure the extractor moves the cursor to
\* one past the failed start and goes on; the loop terminates (each pass
\* leaves the loop or advances the cursor, which stays within the
\* document); every later well-formed block of the keyword
\* that is not nested inside another balanced block of the keyword is
\* extracted and returned.
C7_RecoversAfterFailure ==
    /\ [][C7_SkipOnePastFailure]_vars
    /\ [][C7_CursorAdvances]_vars
    /\ [](C7_LaterBlocksKept)
    /\ [](pc = "extracted" =>
            Len(results) = Cardinality({p \in Occurrences : Extracted(p)}))

\* a run that met a failed start and extracted a block after it
C7_Witness ==
    /\ pc = "extracted"
    /\ \E f \in Occurrences : \E p \in Occurrences :
          /\ UnmatchedOpenAt(content, f) /\ f < p
          /\ WellFormedBlockAt(p) /\ Extracted(p)
    /\ Len(results) >= 1

\* the regions scanned successfully are balanced, follow one another in
\* document order without overlap, and lie before the cursor; the results
\* are the blocks of the kept regions, in that order
C9_RegionsDisjoint ==
    /\ \A n \in 1..Len(spans) :
          /\ Occurrence(spans[n].start)
          /\ Balanced(Slice(content, spans[n].start, spans[n].end))
          /\ spans[n].end = CloseOf(spans[n].start)
          /\ spans[n].end <= idx
    /\ \A n \in 1..Len(spans) : \A m \in 1..Len(spans) :
          n < m => spans[n].end <= spans[m].start
    /\ \A p \in Occurrences : \A n \in 1..Len(spans) :
          (spans[n].start < p /\ p < spans[n].end) => ~Extracted(p)
    /\ LET kept == SelectSeq(spans, LAMBDA sp : sp.kept)
       IN  /\ Len(results) = Len(kept)
           /\ \A n \in 1..Len(kept) :
                 <<results[n]>> =
                     BlockEntry(Slice(content, kept[n].start, kept[n].end),
                                block_type)

\* a pass whose scan succeeds sets the cursor to the offset after the block
C9_CursorAfterBlock ==
    (pc = "extract" /\ NextFound # -1 /\ ~UnmatchedOpenAt(content, NextFound)) =>
        /\ idx' = CloseOf(NextFound)
        /\ Len(spans') = Len(spans) + 1
        /\ spans'[Len(spans')].start = NextFound
        /\ spans'[Len(spans')].end = idx'

\* C9: after every successful scan the cursor is the scanner's returned
\* offset; the extracted regions are contiguous, balanced, pairwise
\* non-overlapping and in document order; an occurrence of the keyword nested
\* in a successfully scanned block is never extracted on its own.
C9_NoNestedExtraction ==
    /\ [](C9_RegionsDisjoint)
    /\ [][C9_CursorAfterBlock]_vars

\* a finished run that extracted a block holding a nested, well-formed block
\* of the keyword
C9_Witness ==
    /\ pc = "extracted"
    /\ Len(results) >= 1
    /\ \E p \in Occurrences :
          /\ spans[1].kept /\ spans[1].start < p /\ p < spans[1].end
          /\ WellFormedBlockAt(p)

-----------------------------------------------------------------------------
(* Claims about the alignment *)

\* the positions of defsrc_list that spell the key name
PositionsOf(keyname) ==
    {p \in 0..Len(defsrc_list) - 1 : Join(At(defsrc_list, p)) = keyname}

DeclaredKeys ==
    {Join(At(defsrc_list, p)) : p \in 0..Len(defsrc_list) - 1}
        \cap DOMAIN PHYSICAL_KEY_MAP

\* the line drawn for a layer in the rectangle of a declared key
LineOf(keyname, ln) ==
    LET ls == cells[keyname].lines
    IN  ls[CHOOSE n \in 1..Len(ls) : ls[n].layer = ln]

\* C1 as claimed: whatever the label map, a layer form "XX" at a declared
\* key's index is drawn as the empty string.
C1_PlaceholderDrawnBlank ==
    pc = "drawn" =>
        \A k \in DeclaredKeys : \A ln \in DOMAIN layer_dict :
            LET p == cells[k].index
            IN  (p < Len(layer_dict[ln]) /\ Join(At(layer_dict[ln], p)) = "XX")
                    => LineOf(k, ln).label = ""

\* C2: for a layer with m < n forms, a declared key whose index is at least m
\* gets "(N/A)" as its assignment, whatever the label map; every declared key
\* gets a line for every layer (nothing is raised); a key whose index is below
\* m gets the layer's form at that index.
C2_ShortLayerNotApplicable ==
    pc = "drawn" =>
        /\ DOMAIN cells = DOMAIN PHYSICAL_KEY_MAP
        /\ {k \in DOMAIN cells : cells[k].declared} = DeclaredKeys
        /\ \A k \in DeclaredKeys :
              /\ {cells[k].lines[n].layer : n \in 1..Len(cells[k].lines)}
                      = DOMAIN layer_dict
              /\ Len(cells[k].lines) = Cardinality(DOMAIN layer_dict)
              /\ \A ln \in DOMAIN layer_dict :
                    LET m == Len(layer_dict[ln])
                        p == cells[k].index
                    IN  /\ (m < Len(defsrc_list) /\ p >= m)
                              => Join(LineOf(k, ln).assigned) = "(N/A)"
                        /\ p < m => LineOf(k, ln).assigned = At(layer_dict[ln], p)

\* a layer shorter than defsrc, with one declared key inside it and one
\* beyond it, under a label map that has an entry for "(N/A)"
C2_Witness ==
    /\ pc = "drawn"
    /\ "(N/A)" \in DOMAIN expr_map
    /\ \E ln \in DOMAIN layer_dict : \E k1, k2 \in DeclaredKeys :
          /\ Len(layer_dict[ln]) < Len(defsrc_list)
          /\ cells[k1].index < Len(layer_dict[ln])
          /\ cells[k2].index >= Len(layer_dict[ln])
          /\ Join(LineOf(k2, ln).assigned) = "(N/A)"

\* C3 as claimed: with a layer of exactly n forms, the key declared at every
\* source position i is shown with the layer's form i.
C3_EveryPositionPaired ==
    pc = "drawn" =>
        \A ln \in DOMAIN layer_dict :
            Len(layer_dict[ln]) = Len(defsrc_list) =>
                \A p \in 0..Len(defsrc_list) - 1 :
                    LET k == Join(At(defsrc_list, p))
                    IN  k \in DOMAIN PHYSICAL_KEY_MAP =>
                            LineOf(k, ln).assigned = At(layer_dict[ln], p)

\* C3 (amended): with a layer of exactly n forms, the key declared at source
\* position i is shown with the layer's form i, for every position i whose
\* key name is not declared again at a later position; the pairing is by
\* index alone.
C3_LastPositionPaired ==
    pc = "drawn" =>
        \A ln \in DOMAIN layer_dict :
            Len(layer_dict[ln]) = Len(defsrc_list) =>
                \A p \in 0..Len(defsrc_list) - 1 :
                    LET k == Join(At(defsrc_list, p))
                    IN  (/\ k \in DOMAIN PHYSICAL_KEY_MAP
                         /\ \A q \in PositionsOf(k) : q <= p)
                            => /\ cells[k].declared
                               /\ LineOf(k, ln).assigned = At(layer_dict[ln], p)

\* two different keys and a layer of as many forms, one of them the name of
\* the other key
C3_Witness ==
    /\ pc = "drawn"
    /\ Len(defsrc_list) = 2
    /\ Len(layer_dict["base"]) = 2
    /\ cells["a"].declared /\ cells["s"].declared
    /\ Join(LineOf("s", "base").assigned) = "a"
    /\ LineOf("a", "base").assigned # LineOf("s", "base").assigned

\* C10: a key name declared at several source positions is aligned at its
\* last position; no key is aligned at one of the earlier positions.
C10_LastOccurrenceWins ==
    pc = "drawn" =>
        \A k \in DeclaredKeys :
            /\ cells[k].declared
            /\ cells[k].index \in PositionsOf(k)
            /\ \A q \in PositionsOf(k) :
                  /\ q <= cells[k].index
                  /\ q < cells[k].index =>
                        \A k2 \in DeclaredKeys : cells[k2].index # q
            /\ \A ln \in DOMAIN layer_dict :
                  LineOf(k, ln).assigned = Assigned(layer_dict[ln], cells[k].index)

\* a key declared twice, with different layer forms at its two positions
C10_Witness ==
    /\ pc = "drawn"
    /\ Cardinality(PositionsOf("a")) = 2
    /\ Len(layer_dict["base"]) = 2
    /\ layer_dict["base"][1] # layer_dict["base"][2]
    /\ LineOf("a", "base").assigned = layer_dict["base"][2]

-----------------------------------------------------------------------------
(* Claims about parse_kmonad_config *)

StartMarkers(t) == {p \in 0..Len(t) - 2 : At(t, p) = "#" /\ At(t, p + 1) = "|"}

EndMarkers(t) == {q \in 0..Len(t) - 2 : At(t, q) = "|" /\ At(t, q + 1) = "#"}

\* the "#|" at p has no "|#" after it
Unterminated(t, p) ==
    p \in StartMarkers(t) /\ \A q \in EndMarkers(t) : q < p + 2

\* t has a "#|", and no "|#" follows the first one
FirstStartUnterminated(t) ==
    \E p \in StartMarkers(t) :
        /\ \A p2 \in StartMarkers(t) : p <= p2
        /\ Unterminated(t, p)

HasLineComment(t) == \E p \in 0..Len(t) - 2 : At(t, p) = ";" /\ At(t, p + 1) = ";"

\* C5 as claimed: the text from an unterminated "#|" to the end is removed.
C5_UnterminatedRemovedToEnd ==
    pc = "watching" =>
        \A p \in StartMarkers(file_text) :
            Unterminated(file_text, p)
                => content = StripComments(Slice(file_text, 0, p))

\* C5 (amended): when no "|#" follows the first "#|" of the text, nothing is
\* removed as a block comment: the "#|" and the text after it stay in the
\* document, less its line comments, and nothing is raised.
C5_UnterminatedKept ==
    (pc = "watching" /\ FirstStartUnterminated(file_text)) =>
        /\ content = RemoveLineComments(file_text, 0)
        /\ ~HasLineComment(file_text) => content = file_text

\* an unterminated "#|" with text after it, kept
C5_Witness ==
    /\ pc = "watching"
    /\ FirstStartUnterminated(file_text)
    /\ \E p \in StartMarkers(file_text) : p + 2 < Len(file_text)
    /\ content = file_text

\* the deflayer blocks of the document of the latest parse
LayerBlocks == extract_defblocks(content, "deflayer")

\* the position in LayerBlocks of the last block of a name
LastBlockOf(name) ==
    CHOOSE n \in 1..Len(LayerBlocks) :
        /\ LayerBlocks[n].name = name
        /\ \A m \in 1..Len(LayerBlocks) : LayerBlocks[m].name = name => m <= n

\* C8: after any sequence of parses, layer_dict has exactly the names of the
\* deflayer blocks of the document parsed last, each with the forms of the
\* last block of that name; nothing of an earlier parse is left.
C8_LayerTableRebuilt ==
    pc = "watching" =>
        /\ DOMAIN layer_dict = {LayerBlocks[n].name : n \in 1..Len(LayerBlocks)}
        /\ \A name \in DOMAIN layer_dict :
              layer_dict[name] =
                  split_top_level_forms(LayerBlocks[LastBlockOf(name)].body)

\* a re-parse of a document with two different blocks of one name, while
\* the file already holds other text
C8_Witness ==
    /\ pc = "watching"
    /\ file_text # content
    /\ Len(LayerBlocks) = 2
    /\ LayerBlocks[1].name = LayerBlocks[2].name
    /\ LayerBlocks[1].body # LayerBlocks[2].body
    /\ layer_dict[LayerBlocks[2].name] = split_top_level_forms(LayerBlocks[2].body)

====
